---- MODULE Spec2Model ----
(***************************************************************************)
(* The Session Controller of the ReCOGnAIze chat client, as a state        *)
(* machine.  Four variants of the controller exist in the sources:         *)
(*   part_000  (src/unnamed/part_000, lines 188-595)  legacy, send is not  *)
(*             optimistic, errors go to alert(), no Reset                  *)
(*   part_001  (src/unnamed/part_001)  screen based, canonical             *)
(*   part_002  (src/unnamed/part_002)  the handlers of part_001, quick     *)
(*             replies on the empty transcript only, a flat formatter      *)
(*   frontend  (src/frontend/src/App.jsx)  persisted to localStorage       *)
(* Timers: uploadStatus is the status text of part_001/part_002,            *)
(* statusTimers and errorTimers are the pending setTimeout calls of the     *)
(* two timer effects, each with the time left (in seconds) until it is due. *)
(* clock tells which timers are followed in time: "none" (a pending timer   *)
(* may fire at any moment), "error" or "status" (time advances by Tick, a   *)
(* due timer fires before time advances further).  elapsed is the time      *)
(* since the latest upload began (it stops when the upload ends), errorAge  *)
(* the time since an error was last surfaced, shownAge the time since the   *)
(* visible error appeared.  capacity is the transcript bound of the         *)
(* specification; like clock it is fixed by the initial state.  rendered is *)
(* what the transcript is rendered to, one Formatted Reply per message; it  *)
(* is followed where the initial state says so and is Unrendered elsewhere. *)
(* A handler runs to completion on the committed state (one JavaScript     *)
(* task); the part of an async handler after its await is a second step,   *)
(* taken when the response of the request arrives.  State updates made in  *)
(* one task are committed together (React's batched updates), and the      *)
(* effects that the commit triggers run before the next event.             *)
(***************************************************************************)
EXTENDS Naturals, Sequences, FiniteSets, TLC

VARIABLES variant, screen, message, loading, uploading, fileName, fileContext,
          messages, error, chat, uploads, storage, last,
          uploadStatus, statusTimers, errorTimers,
          clock, capacity, elapsed, errorAge, shownAge, rendered

ui      == <<screen, message, loading, uploading, fileName, fileContext,
             messages, error>>
vars    == <<variant, screen, message, loading, uploading, fileName,
             fileContext, messages, error, chat, uploads, storage, last,
             uploadStatus, statusTimers, errorTimers,
             clock, capacity, elapsed, errorAge, shownAge, rendered>>

(* ------------------------------ bounds -------------------------------- *)
\* The transcript holds at most MaxMessages messages; a chat request in flight
\* reserves room for its user message and its reply.
MaxMessages == 4
MaxChat == MaxMessages \div 2
\* The transcript bound of the specifications that follow a clock or
\* malformed responses.
MaxTimedMessages == 2
\* At most MaxUpload uploads are in flight.
MaxUpload == 1

(* ------------------------------ values -------------------------------- *)
Variants == {"part_000", "part_001", "part_002", "frontend"}

Null == "null"
NullCtx == "<null>"
Undefined == <<"undefined">>
NoContent == "<undefined>"
NoFilename == "<undefined>"
\* A reply that is no string and is truthy (a number, an object, an array).
NonString == <<"<non-string>">>
\* The value of rendered where the rendering is not followed.
Unrendered ==
    <<[path |-> "unrendered", text |-> <<>>, elements |-> <<>>,
       sections |-> <<>>]>>

\* Text is a sequence of characters.  A message of line feeds only is what
\* Shift+Enter leaves in the textarea.
InputTexts == {<<>>, <<" ">>, <<"\n">>, <<" ", "a">>}
Replies == {<<"r">>}
Times == {"09:00"}
Files == {"A", "B"}

HasScreen(v) == v \in {"part_001", "part_002"}
HasErrorState(v) == v # "part_000"
HasNewChat(v) == v # "part_000"

\* The characters that trim() and \s take as whitespace, as far as a text of
\* the model can hold them (JavaScript also takes \v, U+00A0, U+2028, U+2029,
\* U+FEFF and the Unicode space separators).
WhiteSpace == {" ", "\n", "\t", "\r", "\f"}
IsWhitespace(c) == c \in WhiteSpace

RECURSIVE trimStart(_)
trimStart(s) ==
    IF s = <<>> THEN <<>>
    ELSE IF IsWhitespace(Head(s)) THEN trimStart(Tail(s)) ELSE s

RECURSIVE trimEnd(_)
trimEnd(s) ==
    IF s = <<>> THEN <<>>
    ELSE IF IsWhitespace(s[Len(s)]) THEN trimEnd(SubSeq(s, 1, Len(s) - 1))
    ELSE s

trim(s) == trimEnd(trimStart(s))

\* messages.map((m) => ({ role: m.role, content: m.content }))
conversation_history(ms) ==
    [i \in 1..Len(ms) |-> [role |-> ms[i].role, content |-> ms[i].content]]

\* fileContext || null
file_context(ctx) == IF ctx = "" THEN NullCtx ELSE ctx

userMessage(text, t) == [role |-> "user", content |-> text, time |-> t]
assistantReply(reply, t) == [role |-> "assistant", content |-> reply, time |-> t]

\* A payload built after the user message was appended.
payload_afterAppend(text, ms, ctx) ==
    [message |-> text,
     conversation_history |->
        conversation_history(Append(ms, [role |-> "user", content |-> text])),
     file_context |-> file_context(ctx)]

payload(text, ms, ctx) ==
    [message |-> text,
     conversation_history |-> conversation_history(ms),
     file_context |-> file_context(ctx)]

\* QUICK_ACTIONS: the texts of the quick-reply buttons.
QUICK_ACTIONS == {<<"Q">>}

Remove(s, i) == SubSeq(s, 1, i - 1) \o SubSeq(s, i + 1, Len(s))

\* The last handler that ran: which one, the text it was given, whether it
\* issued a chat request and the payload it posted; for a response, how the
\* request ended and whether it was issued before a Reset; for an upload
\* response, how it ended, the filename that was shown when it arrived and
\* the error field of the response.
NoPayload == [message |-> <<>>, conversation_history |-> <<>>,
              file_context |-> NullCtx]
NoLast == [op |-> "init", text |-> <<>>, issued |-> FALSE,
           posted |-> NoPayload, stale |-> FALSE, kind |-> "none",
           replaced |-> Null, error |-> Null]
Did(op) == [NoLast EXCEPT !.op = op]
\* res.data.error decides between the success path and the early return.
UploadOutcome(res) ==
    IF res.kind = "ok" /\ res.error # Null THEN "error" ELSE res.kind
Returned(text) == [Did("sendMessage") EXCEPT !.text = text]
Posted(p) == [Returned(p.message) EXCEPT !.issued = TRUE, !.posted = p]

NoStorage == [messages |-> [present |-> FALSE, value |-> <<>>],
              fileName |-> Null, fileContext |-> Null]

\* What the server can answer to POST /chat, and how a request can fail.
ChatResults ==
    [kind : {"ok"}, reply : Replies]
    \cup [kind : {"timeout", "network", "http"}, reply : {<<>>}]

\* What the server can answer to POST /upload of file f.
NameOf == [f \in Files |-> IF f = "A" THEN "A.pdf" ELSE "B.pdf"]
ContentOf == [f \in Files |-> IF f = "A" THEN "ctxA" ELSE "ctxB"]
UploadResults(f) ==
    [kind : {"ok"}, error : {Null}, filename : {NameOf[f]},
     content : {ContentOf[f]}]
    \cup [kind : {"ok"}, error : {"Could not parse file"}, filename : {Null},
          content : {NoContent}]
    \cup [kind : {"timeout", "network", "http"}, error : {Null},
          filename : {Null}, content : {NoContent}]

\* A 200 response that lacks what the client reads from it: no reply, no
\* filename, no content.
MalformedChatResults == [kind : {"ok"}, reply : {Undefined}]
MalformedUploadResults(f) ==
    [kind : {"ok"}, error : {Null}, filename : {NoFilename, NameOf[f]},
     content : {NoContent}]
    \cup [kind : {"ok"}, error : {Null}, filename : {NoFilename},
          content : {ContentOf[f]}]

\* localStorage.setItem(key, value) stores String(value).
String(v) == IF v = NoFilename THEN "undefined" ELSE v

\* res.data.content || ''
contentOrEmpty(c) == IF c = NoContent THEN "" ELSE c

\* err.code === 'ECONNABORTED' is a timeout, no err.response a transport
\* failure, anything else a response with an error status (the em dash of the
\* first text is written "-").
getErrorMessage(kind) ==
    IF kind = "timeout"
    THEN "Server took too long to respond. It may be starting up - please try again."
    ELSE IF kind = "network"
    THEN "Cannot reach the server. Please check your connection and try again."
    ELSE "Something went wrong. Please try again."

UploadSettled(i, res) ==
    [Did("uploadResponse") EXCEPT !.kind = UploadOutcome(res),
                                  !.replaced = fileName,
                                  !.error = res.error,
                                  !.stale = uploads[i].stale]

ChatRequest(text, t) ==
    [userMessage |-> userMessage(text, t),
     pre |-> messages,
     stale |-> FALSE]

MarkStale(reqs) == [i \in 1..Len(reqs) |-> [reqs[i] EXCEPT !.stale = TRUE]]

\* Room for one more request within the bounds: every request in flight may
\* still append its reply (in part_000 its user message too).
Room ==
    /\ Len(chat) < MaxChat
    /\ Len(messages) + 2 + (IF variant = "part_000" THEN 2 ELSE 1) * Len(chat)
         <= capacity

\* The component after its first render and the effects of the mount: in
\* App.jsx the effect on [messages] has stored the empty transcript.
Mounted ==
    /\ variant \in Variants
    /\ screen = IF HasScreen(variant) THEN "upload" ELSE "none"
    /\ message = <<>>
    /\ loading = FALSE
    /\ uploading = FALSE
    /\ fileName = Null
    /\ fileContext = ""
    /\ messages = <<>>
    /\ error = Null
    /\ chat = <<>>
    /\ uploads = <<>>
    /\ storage = IF variant = "frontend"
                 THEN [NoStorage EXCEPT
                         !.messages = [present |-> TRUE, value |-> <<>>]]
                 ELSE NoStorage
    /\ last = NoLast
    /\ uploadStatus = ""
    /\ statusTimers = {}
    /\ errorTimers = {}
    /\ elapsed = 0
    /\ errorAge = 0
    /\ shownAge = 0

Init ==
    clock = "none" /\ capacity = MaxMessages /\ rendered = Unrendered /\ Mounted

\* onChange of the textarea: setMessage(e.target.value)
setMessage(t) ==
    /\ screen # "upload"
    /\ message' = t
    /\ last' = Did("other")
    /\ UNCHANGED <<variant, screen, loading, uploading, fileName, fileContext,
                   messages, error, chat, uploads, storage>>

(* ---------------- part_001: the canonical controller ------------------- *)

\* A guard that forgets trim().
sendMessage_returns_noTrim(text) == text = <<>> \/ loading

\* if (!text.trim() || loading) return
sendMessage_returns(text) == trim(text) = <<>> \/ loading

sendMessage(text, t) ==
    IF sendMessage_returns(text)
    THEN /\ last' = Returned(text)
         /\ UNCHANGED <<variant, ui, chat, uploads, storage>>
    ELSE /\ Room
         /\ chat' = Append(chat, ChatRequest(text, t))
         /\ messages' = Append(messages, userMessage(text, t))
         /\ message' = <<>>
         /\ loading' = TRUE
         /\ last' = Posted(payload(text, messages, fileContext))
         /\ UNCHANGED <<variant, screen, uploading, fileName, fileContext,
                        error, uploads, storage>>

\* A catch block that answers a failure with a synthetic assistant message.
sendMessage_settled_syntheticReply(i, res, t) ==
    /\ chat' = Remove(chat, i)
    /\ messages' = Append(messages,
                          assistantReply(IF res.kind = "ok" THEN res.reply
                                         ELSE <<"e">>, t))
    /\ error' = IF res.kind = "ok" THEN error ELSE getErrorMessage(res.kind)
    /\ loading' = FALSE
    /\ last' = [Did("chatResponse") EXCEPT !.stale = chat[i].stale,
                                           !.kind = res.kind]
    /\ UNCHANGED <<variant, screen, message, uploading, fileName, fileContext,
                   uploads, storage>>

\* setMessages([...messages, assistantReply]) on the closure's messages.
sendMessage_settled_staleClosure(i, res, t) ==
    /\ chat' = Remove(chat, i)
    /\ IF res.kind = "ok"
       THEN /\ messages' = Append(chat[i].pre, assistantReply(res.reply, t))
            /\ error' = error
       ELSE /\ messages' = messages
            /\ error' = getErrorMessage(res.kind)
    /\ loading' = FALSE
    /\ last' = [Did("chatResponse") EXCEPT !.stale = chat[i].stale,
                                           !.kind = res.kind]
    /\ UNCHANGED <<variant, screen, message, uploading, fileName, fileContext,
                   uploads, storage>>

\* setLoading(false) at the end of the try block instead of in finally.
sendMessage_settled_noFinally(i, res, t) ==
    /\ chat' = Remove(chat, i)
    /\ IF res.kind = "ok"
       THEN /\ messages' = Append(messages, assistantReply(res.reply, t))
            /\ error' = error
            /\ loading' = FALSE
       ELSE /\ messages' = messages
            /\ error' = getErrorMessage(res.kind)
            /\ loading' = loading
    /\ last' = [Did("chatResponse") EXCEPT !.stale = chat[i].stale,
                                           !.kind = res.kind]
    /\ UNCHANGED <<variant, screen, message, uploading, fileName, fileContext,
                   uploads, storage>>

\* The rest of sendMessage, run when request i settles with res.
sendMessage_settled(i, res, t) ==
    /\ chat' = Remove(chat, i)
    /\ IF res.kind = "ok"
       THEN /\ messages' = Append(messages, assistantReply(res.reply, t))
            /\ error' = error
       ELSE /\ messages' = messages
            /\ error' = getErrorMessage(res.kind)
    /\ loading' = FALSE
    /\ last' = [Did("chatResponse") EXCEPT !.stale = chat[i].stale,
                                           !.kind = res.kind]
    /\ UNCHANGED <<variant, screen, message, uploading, fileName, fileContext,
                   uploads, storage>>

handleUpload(f) ==
    /\ uploading' = TRUE
    /\ error' = Null
    /\ uploads' = Append(uploads, [file |-> f, stale |-> FALSE])
    /\ last' = Did("other")
    /\ UNCHANGED <<variant, screen, message, loading, fileName, fileContext,
                   messages, chat, storage>>

\* A success path that forgets setFileContext.
handleUpload_settled_forgetsContext(i, res) ==
    /\ uploads' = Remove(uploads, i)
    /\ IF res.kind = "ok"
       THEN IF res.error # Null
            THEN /\ error' = res.error
                 /\ UNCHANGED <<fileName, fileContext, screen>>
            ELSE /\ fileName' = res.filename
                 /\ fileContext' = fileContext
                 /\ screen' = "chat"
                 /\ error' = error
       ELSE /\ error' = getErrorMessage(res.kind)
            /\ UNCHANGED <<fileName, fileContext, screen>>
    /\ uploading' = FALSE
    /\ last' = UploadSettled(i, res)
    /\ UNCHANGED <<variant, message, loading, messages, chat, storage>>

\* A success path that forgets setScreen('chat').
handleUpload_settled_keepsScreen(i, res) ==
    /\ uploads' = Remove(uploads, i)
    /\ IF res.kind = "ok"
       THEN IF res.error # Null
            THEN /\ error' = res.error
                 /\ UNCHANGED <<fileName, fileContext, screen>>
            ELSE /\ fileName' = res.filename
                 /\ fileContext' = contentOrEmpty(res.content)
                 /\ screen' = screen
                 /\ error' = error
       ELSE /\ error' = getErrorMessage(res.kind)
            /\ UNCHANGED <<fileName, fileContext, screen>>
    /\ uploading' = FALSE
    /\ last' = UploadSettled(i, res)
    /\ UNCHANGED <<variant, message, loading, messages, chat, storage>>

\* An application error answered with the catch-all message.
handleUpload_settled_genericOnError(i, res) ==
    /\ uploads' = Remove(uploads, i)
    /\ IF res.kind = "ok"
       THEN IF res.error # Null
            THEN /\ error' = getErrorMessage("http")
                 /\ UNCHANGED <<fileName, fileContext, screen>>
            ELSE /\ fileName' = res.filename
                 /\ fileContext' = contentOrEmpty(res.content)
                 /\ screen' = "chat"
                 /\ error' = error
       ELSE /\ error' = getErrorMessage(res.kind)
            /\ UNCHANGED <<fileName, fileContext, screen>>
    /\ uploading' = FALSE
    /\ last' = UploadSettled(i, res)
    /\ UNCHANGED <<variant, message, loading, messages, chat, storage>>

\* A catch block that moves on to the chat screen.
handleUpload_settled_chatOnFailure(i, res) ==
    /\ uploads' = Remove(uploads, i)
    /\ IF res.kind = "ok"
       THEN IF res.error # Null
            THEN /\ error' = res.error
                 /\ UNCHANGED <<fileName, fileContext, screen>>
            ELSE /\ fileName' = res.filename
                 /\ fileContext' = contentOrEmpty(res.content)
                 /\ screen' = "chat"
                 /\ error' = error
       ELSE /\ error' = getErrorMessage(res.kind)
            /\ screen' = "chat"
            /\ UNCHANGED <<fileName, fileContext>>
    /\ uploading' = FALSE
    /\ last' = UploadSettled(i, res)
    /\ UNCHANGED <<variant, message, loading, messages, chat, storage>>

handleUpload_settled(i, res) ==
    /\ uploads' = Remove(uploads, i)
    /\ IF res.kind = "ok"
       THEN IF res.error # Null
            THEN /\ error' = res.error
                 /\ UNCHANGED <<fileName, fileContext, screen>>
            ELSE /\ fileName' = res.filename
                 /\ fileContext' = contentOrEmpty(res.content)
                 /\ screen' = "chat"
                 /\ error' = error
       ELSE /\ error' = getErrorMessage(res.kind)
            /\ UNCHANGED <<fileName, fileContext, screen>>
    /\ uploading' = FALSE
    /\ last' = UploadSettled(i, res)
    /\ UNCHANGED <<variant, message, loading, messages, chat, storage>>

\* A Reset that forgets the report context.
handleNewChat_keepsContext ==
    /\ messages' = <<>>
    /\ message' = <<>>
    /\ fileName' = Null
    /\ fileContext' = fileContext
    /\ error' = Null
    /\ screen' = "upload"
    /\ chat' = MarkStale(chat)
    /\ uploads' = MarkStale(uploads)
    /\ last' = Did("handleNewChat")
    /\ UNCHANGED <<variant, loading, uploading, storage>>

handleNewChat ==
    /\ messages' = <<>>
    /\ message' = <<>>
    /\ fileName' = Null
    /\ fileContext' = ""
    /\ error' = Null
    /\ screen' = "upload"
    /\ chat' = MarkStale(chat)
    /\ uploads' = MarkStale(uploads)
    /\ last' = Did("handleNewChat")
    /\ UNCHANGED <<variant, loading, uploading, storage>>

\* onClick of "Continue without a file": setScreen('chat')
skip ==
    /\ screen' = "chat"
    /\ last' = Did("skip")
    /\ UNCHANGED <<variant, message, loading, uploading, fileName, fileContext,
                   messages, error, chat, uploads, storage>>

\* onClick of the toast's button: setError(null)
dismissError ==
    /\ error' = Null
    /\ last' = Did("other")
    /\ UNCHANGED <<variant, screen, message, loading, uploading, fileName,
                   fileContext, messages, chat, uploads, storage>>

\* the auto-dismiss effect's timer: setTimeout(() => setError(null), ...)
errorTimeout ==
    /\ error' = Null
    /\ last' = Did("errorTimeout")
    /\ UNCHANGED <<variant, screen, message, loading, uploading, fileName,
                   fileContext, messages, chat, uploads, storage>>

(* ---------------- frontend/src/App.jsx: the persisted controller ------- *)

\* JSON.stringify drops a key whose value is undefined; JSON.parse gives the
\* record back, the dropped key reading as undefined.
JSON_stringify(ms) ==
    [i \in 1..Len(ms) |->
        [role |-> ms[i].role, time |-> ms[i].time,
         keys |-> IF ms[i].content = Undefined THEN {"role", "time"}
                  ELSE {"role", "content", "time"},
         content |-> IF ms[i].content = Undefined THEN <<>> ELSE ms[i].content]]

JSON_parse(js) ==
    [i \in 1..Len(js) |->
        [role |-> js[i].role,
         content |-> IF "content" \in js[i].keys THEN js[i].content
                     ELSE Undefined,
         time |-> js[i].time]]

\* (msg.content || '').split('\n') of renderMessageContent raises a TypeError
\* for an assistant message whose content is truthy and no string.  The
\* render of a transcript with such a message does not complete: the commit
\* does not happen, its effects do not run, and React removes the component.
\* The upload screen is returned before messages.map and renders no message.
Raises(scr, ms) ==
    /\ scr # "upload"
    /\ \E i \in 1..Len(ms) :
          ms[i].role = "assistant" /\ ms[i].content = NonString

\* The component is gone: the last render raised.  What its state held stays
\* as it was, since a setState of a removed component does nothing.
Removed == Raises(screen, messages)

\* The effect on [messages]: localStorage.setItem(messages, JSON.stringify(..)),
\* run after a commit that changed messages.
persist(st, old, new) ==
    IF new = old \/ Raises(screen, new) THEN st
    ELSE [st EXCEPT !.messages = [present |-> TRUE, value |-> JSON_stringify(new)]]

\* setMessages([]) installs a new array also when the transcript was empty, so
\* the effect on [messages] runs after that commit in any case.
persist_always(st, new) ==
    [st EXCEPT !.messages = [present |-> TRUE, value |-> JSON_stringify(new)]]

\* if (!text.trim()) return
sendMessage_frontend_returns(text) == trim(text) = <<>>

sendMessage_frontend(text, t) ==
    IF sendMessage_frontend_returns(text)
    THEN /\ last' = Returned(text)
         /\ UNCHANGED <<variant, ui, chat, uploads, storage>>
    ELSE /\ Room
         /\ chat' = Append(chat, ChatRequest(text, t))
         /\ messages' = Append(messages, userMessage(text, t))
         /\ message' = <<>>
         /\ loading' = TRUE
         /\ storage' = persist(storage, messages, messages')
         /\ last' = Posted(payload(text, messages, fileContext))
         /\ UNCHANGED <<variant, screen, uploading, fileName, fileContext,
                        error, uploads>>

sendMessage_frontend_settled(i, res, t) ==
    /\ chat' = Remove(chat, i)
    /\ IF res.kind = "ok"
       THEN /\ messages' = Append(messages, assistantReply(res.reply, t))
            /\ error' = error
       ELSE /\ messages' = messages
            /\ error' = "Unable to reach the assistant. Please try again."
    /\ loading' = FALSE
    /\ storage' = persist(storage, messages, messages')
    /\ last' = [Did("chatResponse") EXCEPT !.stale = chat[i].stale,
                                           !.kind = res.kind]
    /\ UNCHANGED <<variant, screen, message, uploading, fileName, fileContext,
                   uploads>>

handleUpload_frontend(f) ==
    /\ loading' = TRUE
    /\ uploads' = Append(uploads, [file |-> f, stale |-> FALSE])
    /\ last' = Did("other")
    /\ UNCHANGED <<variant, screen, message, uploading, fileName, fileContext,
                   messages, error, chat, storage>>

handleUpload_frontend_settled(i, res) ==
    /\ uploads' = Remove(uploads, i)
    /\ IF res.kind = "ok"
       THEN IF res.error # Null
            THEN /\ error' = res.error
                 /\ UNCHANGED <<fileName, fileContext, storage>>
            ELSE /\ fileName' = res.filename
                 /\ fileContext' = contentOrEmpty(res.content)
                 /\ storage' = [storage EXCEPT
                                  !.fileName = String(res.filename),
                                  !.fileContext = contentOrEmpty(res.content)]
                 /\ error' = error
       ELSE /\ error' = "Unable to upload file. Please try again."
            /\ UNCHANGED <<fileName, fileContext, storage>>
    /\ loading' = FALSE
    /\ last' = UploadSettled(i, res)
    /\ UNCHANGED <<variant, screen, message, uploading, messages, chat>>

clearFile ==
    /\ fileName' = Null
    /\ fileContext' = ""
    /\ storage' = [storage EXCEPT !.fileName = Null, !.fileContext = Null]
    /\ last' = Did("other")
    /\ UNCHANGED <<variant, screen, message, loading, uploading, messages,
                   error, chat, uploads>>

\* The three removeItem calls, then the persist effect of the commit.
handleNewChat_frontend ==
    /\ messages' = <<>>
    /\ message' = <<>>
    /\ fileName' = Null
    /\ fileContext' = ""
    /\ error' = Null
    /\ storage' = persist_always(NoStorage, messages')
    /\ chat' = MarkStale(chat)
    /\ uploads' = MarkStale(uploads)
    /\ last' = Did("handleNewChat")
    /\ UNCHANGED <<variant, screen, loading, uploading>>

\* A page reload: the requests in flight die with the page, the component
\* mounts with its initial state, the load effect restores what is saved and
\* the persist effect writes the transcript back.
mount ==
    /\ messages' = IF storage.messages.present
                   THEN JSON_parse(storage.messages.value) ELSE <<>>
    /\ fileName' = IF storage.fileName \notin {Null, ""}
                   THEN storage.fileName ELSE Null
    /\ fileContext' = IF storage.fileContext \notin {Null, ""}
                      THEN storage.fileContext ELSE ""
    /\ message' = <<>>
    /\ loading' = FALSE
    /\ error' = Null
    /\ chat' = <<>>
    /\ uploads' = <<>>
    /\ storage' = [storage EXCEPT
                     !.messages = [present |-> TRUE,
                                   value |-> JSON_stringify(messages')]]
    /\ last' = Did("mount")
    /\ UNCHANGED <<variant, screen, uploading>>

(* ---------------- part_000: the legacy controller ---------------------- *)

\* if (!message.trim()) return
handleSend_part_000_returns == trim(message) = <<>>

handleSend_part_000(t) ==
    IF handleSend_part_000_returns
    THEN /\ last' = Returned(message)
         /\ UNCHANGED <<variant, ui, chat, uploads, storage>>
    ELSE /\ Room
         /\ chat' = Append(chat, ChatRequest(message, t))
         /\ loading' = TRUE
         /\ last' = Posted(payload(message, messages, fileContext))
         /\ UNCHANGED <<variant, screen, message, uploading, fileName,
                        fileContext, messages, error, uploads, storage>>

\* failure: alert('Error contacting chatbot'), which is no state
handleSend_part_000_settled(i, res, t) ==
    /\ chat' = Remove(chat, i)
    /\ IF res.kind = "ok"
       THEN /\ messages' = messages \o <<chat[i].userMessage,
                                         assistantReply(res.reply, t)>>
            /\ message' = <<>>
       ELSE UNCHANGED <<messages, message>>
    /\ loading' = FALSE
    /\ last' = [Did("chatResponse") EXCEPT !.stale = chat[i].stale,
                                           !.kind = res.kind]
    /\ UNCHANGED <<variant, screen, uploading, fileName, fileContext, error,
                   uploads, storage>>

handleQuickReply_part_000(text) ==
    /\ message' = text
    /\ last' = Did("other")
    /\ UNCHANGED <<variant, screen, loading, uploading, fileName, fileContext,
                   messages, error, chat, uploads, storage>>

handleUpload_part_000(f) ==
    /\ loading' = TRUE
    /\ uploads' = Append(uploads, [file |-> f, stale |-> FALSE])
    /\ last' = Did("other")
    /\ UNCHANGED <<variant, screen, message, uploading, fileName, fileContext,
                   messages, error, chat, storage>>

\* an error of either kind: alert(...), which is no state
handleUpload_part_000_settled(i, res) ==
    /\ uploads' = Remove(uploads, i)
    /\ IF res.kind = "ok" /\ res.error = Null
       THEN /\ fileName' = res.filename
            /\ fileContext' = contentOrEmpty(res.content)
       ELSE UNCHANGED <<fileName, fileContext>>
    /\ loading' = FALSE
    /\ last' = UploadSettled(i, res)
    /\ UNCHANGED <<variant, screen, message, uploading, messages, error, chat,
                   storage>>

(* ---------------- the Reply Formatter: renderMessageContent ------------- *)

\* A text is a sequence of characters.  BULLET stands for the character
\* U+2022, and "\n" is the line feed.
BULLET == "u2022"
LF == "\n"

UpperCase == <<"A", "B", "C", "D", "E", "F", "G", "H", "I", "J", "K", "L", "M",
               "N", "O", "P", "Q", "R", "S", "T", "U", "V", "W", "X", "Y", "Z">>
LowerCase == <<"a", "b", "c", "d", "e", "f", "g", "h", "i", "j", "k", "l", "m",
               "n", "o", "p", "q", "r", "s", "t", "u", "v", "w", "x", "y", "z">>
Digits == {"0", "1", "2", "3", "4", "5", "6", "7", "8", "9"}

IsUpper(c) == \E k \in 1..26 : UpperCase[k] = c
IsLower(c) == \E k \in 1..26 : LowerCase[k] = c
IsDigit(c) == c \in Digits
IsAsterisk(c) == c = "*"

\* String.prototype.toLowerCase
toLowerCase(s) ==
    [i \in 1..Len(s) |->
        IF IsUpper(s[i])
        THEN LowerCase[CHOOSE k \in 1..26 : UpperCase[k] = s[i]]
        ELSE s[i]]

\* String.prototype.includes and startsWith
includes(s, sub) ==
    \E i \in 1..(Len(s) - Len(sub) + 1) :
        \A k \in 1..Len(sub) : s[i + k - 1] = sub[k]

startsWith(s, c) == s # <<>> /\ s[1] = c

\* The result of a match that failed (null).
NoMatch == <<"<no match>">>

\* content.split('\n')
RECURSIVE split(_)
split(s) ==
    IF \E i \in 1..Len(s) : s[i] = LF
    THEN LET i == CHOOSE i \in 1..Len(s) :
                    s[i] = LF /\ \A j \in 1..(i - 1) : s[j] # LF
         IN <<SubSeq(s, 1, i - 1)>> \o split(SubSeq(s, i + 1, Len(s)))
    ELSE <<s>>

\* The number of leading characters of s that are in class Is.
Leading(s, Is(_)) ==
    CHOOSE k \in 0..Len(s) :
        /\ \A i \in 1..k : Is(s[i])
        /\ k < Len(s) => ~Is(s[k + 1])

\* The characters that "." of a regular expression matches: all but the line
\* terminators ("\n" and "\r"; U+2028 and U+2029 are in no text of the model).
IsDot(c) == c \notin {"\n", "\r"}

\* What a greedy (.+) or (.*) takes from place i of s on.
DotRun(s, i) ==
    SubSeq(s, i, i + Leading(SubSeq(s, i, Len(s)), IsDot) - 1)

\* text.replace(/\*+/g, '')
stripAsterisks(s) == SelectSeq(s, LAMBDA c : ~IsAsterisk(c))

\* The group of /^\s+(.+)/ on s: the greedy \s+ takes the leading whitespace
\* and gives back as little of it as (.+) needs to find a character; (.+)
\* takes what follows up to a line terminator.
afterSpaces(s) ==
    LET sp == Leading(s, IsWhitespace)
        ks == {k \in 1..sp : k < Len(s) /\ IsDot(s[k + 1])}
    IN IF ks = {} THEN NoMatch
       ELSE DotRun(s, (CHOOSE k \in ks : \A m \in ks : m <= k) + 1)

(* ---------------- part_001: the canonical formatter -------------------- *)

\* line.match(/^#{1,4}\s+(.+)/)?.[1]
hashMatch(line) ==
    LET k == Leading(line, LAMBDA c : c = "#")
    IN IF k \in 1..4 THEN afterSpaces(SubSeq(line, k + 1, Len(line)))
       ELSE NoMatch

\* line.match(/^\*\*(.+?)\*\*:?$/)?.[1]
boldHeadingMatch(line) ==
    LET n == Len(line)
        e == IF n > 0 /\ line[n] = ":" THEN n - 1 ELSE n
    IN IF /\ e >= 5
          /\ line[1] = "*" /\ line[2] = "*"
          /\ line[e - 1] = "*" /\ line[e] = "*"
          /\ \A i \in 3..(e - 2) : IsDot(line[i])
       THEN SubSeq(line, 3, e - 2)
       ELSE NoMatch

\* line.match(/^([A-Z][A-Z\s&]{3,}):?$/)?.[1]
capsHeadingMatch(line) ==
    LET n == Len(line)
        e == IF n > 0 /\ line[n] = ":" THEN n - 1 ELSE n
    IN IF /\ e >= 4
          /\ IsUpper(line[1])
          /\ \A i \in 2..e :
                IsUpper(line[i]) \/ IsWhitespace(line[i]) \/ line[i] = "&"
       THEN SubSeq(line, 1, e)
       ELSE NoMatch

\* (hashMatch?.[1] || boldHeadingMatch?.[1] || capsHeadingMatch?.[1])
headingMatch(line) ==
    IF hashMatch(line) # NoMatch THEN hashMatch(line)
    ELSE IF boldHeadingMatch(line) # NoMatch THEN boldHeadingMatch(line)
    ELSE capsHeadingMatch(line)

\* .replace(/\*+/g, '').trim()
headingText(line) == trim(stripAsterisks(headingMatch(line)))

\* remaining.match(/\*\*(.+?)\*\*/): the leftmost "**" that has a later "**"
\* with at least one character and no line terminator in between, and the
\* nearest such closing "**".
IsPair(s, i) == i >= 1 /\ i + 1 <= Len(s) /\ s[i] = "*" /\ s[i + 1] = "*"

boldOpens(s) ==
    LET pairs == {i \in 1..Len(s) : IsPair(s, i)}
    IN {i \in pairs :
           \E j \in pairs :
               j >= i + 3 /\ \A k \in (i + 2)..(j - 1) : IsDot(s[k])}

boldOpen(s) == CHOOSE i \in boldOpens(s) : \A k \in boldOpens(s) : i <= k

boldClose(s) ==
    CHOOSE j \in (boldOpen(s) + 3)..Len(s) :
        /\ IsPair(s, j)
        /\ \A k \in (boldOpen(s) + 3)..(j - 1) : ~IsPair(s, k)

span(text) == [bold |-> FALSE, text |-> text]
msg_bold(text) == [bold |-> TRUE, text |-> text]

\* The while loop of renderInline.
RECURSIVE inlineParts(_)
inlineParts(remaining) ==
    IF remaining = <<>> THEN <<>>
    ELSE IF boldOpens(remaining) # {}
    THEN LET i == boldOpen(remaining)
             j == boldClose(remaining)
             beforeBold == SubSeq(remaining, 1, i - 1)
         IN (IF beforeBold # <<>> THEN <<span(beforeBold)>> ELSE <<>>)
            \o <<msg_bold(SubSeq(remaining, i + 2, j - 1))>>
            \o inlineParts(SubSeq(remaining, j + 2, Len(remaining)))
    ELSE LET cleaned == stripAsterisks(remaining)
         IN IF cleaned # <<>> THEN <<span(cleaned)>> ELSE <<>>

\* parts.length > 0 ? parts : text.replace(/\*+/g, ''): the parts, or the bare
\* text as the only child.
renderInline(text) ==
    IF inlineParts(text) # <<>> THEN inlineParts(text)
    ELSE <<span(stripAsterisks(text))>>

\* line.match(/^[•\-\*]\s+(.+)/)?.[1]
bulletMatch(line) ==
    IF line # <<>> /\ line[1] \in {BULLET, "-", "*"}
    THEN afterSpaces(Tail(line))
    ELSE NoMatch

\* line.match(/^(\d+[\.\)]\s+)(.+)/)
numberedMatch(line) ==
    LET d == Leading(line, IsDigit)
    IN /\ d >= 1
       /\ Len(line) > d
       /\ line[d + 1] \in {".", ")"}
       /\ afterSpaces(SubSeq(line, d + 2, Len(line))) # NoMatch

\* The output elements: a heading or a plain line (cls, text or parts), or a
\* section block with its lines.
Element(cls, text, parts, lines) ==
    [cls |-> cls, text |-> text, parts |-> parts, lines |-> lines]
SectionLine(cls, content) == [cls |-> cls, content |-> content]

\* flushSection: the pending section lines become one block.
flushSection(acc) ==
    IF acc.sectionLines # <<>>
    THEN [elements |-> Append(acc.elements,
                        Element("msg-section-block", <<>>, <<>>,
                                acc.sectionLines)),
          sectionLines |-> <<>>]
    ELSE acc

\* The body of rawLines.forEach for one line.
renderLine(acc, rawLine) ==
    LET line == trim(rawLine)
    IN IF line = <<>> THEN flushSection(acc)
       ELSE IF headingMatch(line) # NoMatch
       THEN [flushSection(acc) EXCEPT
               !.elements = Append(@, Element("msg-line msg-heading",
                                              headingText(line), <<>>, <<>>))]
       ELSE IF bulletMatch(line) # NoMatch
       THEN [acc EXCEPT !.sectionLines =
               Append(@, SectionLine("msg-line msg-bullet",
                                     renderInline(bulletMatch(line))))]
       ELSE IF numberedMatch(line)
       THEN [acc EXCEPT !.sectionLines =
               Append(@, SectionLine("msg-line msg-numbered",
                                     renderInline(line)))]
       ELSE IF acc.sectionLines # <<>>
       THEN [acc EXCEPT !.sectionLines =
               Append(@, SectionLine("msg-line", renderInline(line)))]
       ELSE [acc EXCEPT !.elements =
               Append(@, Element("msg-line", <<>>, renderInline(line), <<>>))]

RECURSIVE renderLines(_, _)
renderLines(acc, rawLines) ==
    IF rawLines = <<>> THEN acc
    ELSE renderLines(renderLine(acc, Head(rawLines)), Tail(rawLines))

(* ---------------- frontend, part_000: the template formatter ---------- *)

\* The phrases the formatter looks for, as texts.
UNDERSTANDING ==
    <<"u", "n", "d", "e", "r", "s", "t", "a", "n", "d", "i", "n", "g",
      " ", "y", "o", "u", "r", " ", "r", "e", "s", "u", "l", "t", "s">>
ACTION_PLAN ==
    <<"y", "o", "u", "r", " ", "p", "e", "r", "s", "o", "n", "a", "l",
      "i", "z", "e", "d", " ", "a", "c", "t", "i", "o", "n", " ", "p",
      "l", "a", "n">>
MONITORING ==
    <<"m", "o", "n", "i", "t", "o", "r", "i", "n", "g", " ", "y", "o",
      "u", "r", " ", "p", "r", "o", "g", "r", "e", "s", "s">>
DOCTOR ==
    <<"w", "h", "e", "n", " ", "t", "o", " ", "s", "e", "e", " ", "y",
      "o", "u", "r", " ", "d", "o", "c", "t", "o", "r">>
RESULTS_BY_GAME ==
    <<"y", "o", "u", "r", " ", "r", "e", "s", "u", "l", "t", "s", " ",
      "b", "y", " ", "g", "a", "m", "e", ":">>
WHAT_THIS_MEANS ==
    <<"w", "h", "a", "t", " ", "t", "h", "i", "s", " ", "m", "e", "a",
      "n", "s", ":">>
NEXT_STEPS ==
    <<"n", "e", "x", "t", " ", "s", "t", "e", "p", "s", ":">>
KEY_POINTS ==
    <<"k", "e", "y", " ", "p", "o", "i", "n", "t", "s">>
COMMON_SYMPTOMS ==
    <<"c", "o", "m", "m", "o", "n", " ", "s", "y", "m", "p", "t", "o",
      "m", "s">>
TYPES_OF_MCI ==
    <<"t", "y", "p", "e", "s", " ", "o", "f", " ", "m", "c", "i">>
IMPORTANT_NOTE ==
    <<"i", "m", "p", "o", "r", "t", "a", "n", "t", " ", "n", "o", "t",
      "e">>

\* line.length <= 60
HEADER_MAX_LENGTH == 60

\* The first place where the pattern of two (one) asterisks, any characters
\* but line terminators, two (one) asterisks matches, and the nearest closing place: w is the width
\* of the marker.
IsMarker(s, i, w) ==
    i >= 1 /\ i + w - 1 <= Len(s) /\ \A k \in i..(i + w - 1) : s[k] = "*"

wrapOpens(s, w) ==
    LET markers == {i \in 1..Len(s) : IsMarker(s, i, w)}
    IN {i \in markers :
           \E j \in markers :
               j >= i + w /\ \A k \in (i + w)..(j - 1) : IsDot(s[k])}

wrapOpen(s, w) == CHOOSE i \in wrapOpens(s, w) : \A k \in wrapOpens(s, w) : i <= k

wrapClose(s, w) ==
    CHOOSE j \in (wrapOpen(s, w) + w)..Len(s) :
        /\ IsMarker(s, j, w)
        /\ \A k \in (wrapOpen(s, w) + w)..(j - 1) : ~IsMarker(s, k, w)

\* cleaned.replace(/\*\*(.*?)\*\*/g, '$1') with w = 2 and
\* cleaned.replace(/\*(.*?)\*/g, '$1') with w = 1
RECURSIVE unwrap(_, _)
unwrap(s, w) ==
    IF wrapOpens(s, w) = {} THEN s
    ELSE LET i == wrapOpen(s, w)
             j == wrapClose(s, w)
         IN SubSeq(s, 1, i - 1) \o SubSeq(s, i + w, j - 1)
            \o unwrap(SubSeq(s, j + w, Len(s)), w)

\* cleaned.replace(/^\*+\s*/, '')
stripLeadingAsterisks(s) ==
    LET a == Leading(s, IsAsterisk)
        rest == SubSeq(s, a + 1, Len(s))
    IN IF a = 0 THEN s
       ELSE SubSeq(rest, Leading(rest, IsWhitespace) + 1, Len(rest))

\* cleaned.replace(/\*+$/g, '')
RECURSIVE stripTrailingAsterisks(_)
stripTrailingAsterisks(s) ==
    IF s # <<>> /\ IsAsterisk(s[Len(s)])
    THEN stripTrailingAsterisks(SubSeq(s, 1, Len(s) - 1))
    ELSE s

normalizeAssistantLine(line) ==
    stripTrailingAsterisks(
        stripLeadingAsterisks(unwrap(unwrap(trim(line), 2), 1)))

\* .split('\n').map(trim).filter(length > 0).map(normalizeAssistantLine)
rawLinesOf(content) ==
    LET trimmed == [i \in 1..Len(split(content)) |-> trim(split(content)[i])]
        kept == SelectSeq(trimmed, LAMBDA l : l # <<>>)
    IN [i \in 1..Len(kept) |-> normalizeAssistantLine(kept[i])]

sectionDefs ==
    << [key |-> "understanding", match |-> UNDERSTANDING, icon |-> "U+1F4CA"],
       [key |-> "action", match |-> ACTION_PLAN, icon |-> "U+1F3AF"],
       [key |-> "monitoring", match |-> MONITORING, icon |-> "U+1F4C5"],
       [key |-> "doctor", match |-> DOCTOR, icon |-> "U+2695"] >>

\* sectionDefs.find((s) => lower.includes(s.match)): its index, 0 for none.
headerOf(line) ==
    LET lower == toLowerCase(line)
        found == {k \in 1..Len(sectionDefs) :
                    includes(lower, sectionDefs[k].match)}
    IN IF found = {} THEN 0
       ELSE CHOOSE k \in found : \A m \in found : k <= m

hasSlideSections(rawLines) ==
    \E i \in 1..Len(rawLines) : headerOf(rawLines[i]) # 0

IsAlphanumeric(c) == IsUpper(c) \/ IsLower(c) \/ IsDigit(c)

\* line.replace(/^[^a-zA-Z0-9]+/, '').trim()
cleanedTitle(line) ==
    trim(SubSeq(line, Leading(line, LAMBDA c : ~IsAlphanumeric(c)) + 1,
                Len(line)))

IsBulletLine(line) == startsWith(line, BULLET) \/ startsWith(line, "-")

\* line.replace(/^[-•]\s*/, '')
stripGlyph(line) ==
    LET rest == Tail(line)
    IN SubSeq(rest, Leading(rest, IsWhitespace) + 1, Len(rest))

\* The body of rawLines.forEach in the template path; the current section is
\* the last one of sections.
slideLine(sections, line) ==
    LET header == headerOf(line)
    IN IF header # 0
       THEN Append(sections,
                   [key |-> sectionDefs[header].key,
                    title |-> cleanedTitle(line),
                    icon |-> sectionDefs[header].icon,
                    paragraphs |-> <<>>,
                    bullets |-> <<>>])
       ELSE IF sections = <<>> THEN sections
       ELSE IF IsBulletLine(line)
       THEN [sections EXCEPT
               ![Len(sections)].bullets = Append(@, stripGlyph(line))]
       ELSE [sections EXCEPT ![Len(sections)].paragraphs = Append(@, line)]

RECURSIVE slideSections(_, _)
slideSections(sections, rawLines) ==
    IF rawLines = <<>> THEN sections
    ELSE slideSections(slideLine(sections, Head(rawLines)), Tail(rawLines))

isHeaderLine(rawLines, index) ==
    LET line == rawLines[index]
        lower == toLowerCase(line)
        next == IF index + 1 <= Len(rawLines) THEN rawLines[index + 1] ELSE <<>>
    IN IF IsBulletLine(line) THEN FALSE
       ELSE IF \/ lower \in {RESULTS_BY_GAME, WHAT_THIS_MEANS, NEXT_STEPS,
                             KEY_POINTS, COMMON_SYMPTOMS, TYPES_OF_MCI,
                             IMPORTANT_NOTE}
               \/ headerOf(line) # 0
       THEN TRUE
       ELSE Len(line) <= HEADER_MAX_LENGTH /\ IsBulletLine(next)

(* ---------------- renderMessageContent --------------------------------- *)

\* What renderMessageContent gives: the bare content of a user message, the
\* elements of the generic path, the section cards of the template path, or
\* a TypeError.
Content(text) ==
    [path |-> "user", text |-> text, elements |-> <<>>, sections |-> <<>>]
Generic(elements) ==
    [path |-> "generic", text |-> <<>>, elements |-> elements,
     sections |-> <<>>]
Slide(sections) ==
    [path |-> "template", text |-> <<>>, elements |-> <<>>,
     sections |-> sections]
TypeError ==
    [path |-> "raised", text |-> <<>>, elements |-> <<>>, sections |-> <<>>]

\* (msg.content || ''): undefined, null and '' give ''.
contentOrEmptyText(content) == IF content = Undefined THEN <<>> ELSE content

renderMessageContent_part_001(msg) ==
    IF msg.role # "assistant" THEN Content(msg.content)
    ELSE IF msg.content = NonString THEN TypeError
    ELSE Generic(flushSection(
            renderLines([elements |-> <<>>, sectionLines |-> <<>>],
                        split(contentOrEmptyText(msg.content)))).elements)

renderMessageContent_frontend(msg) ==
    IF msg.role # "assistant" THEN Content(msg.content)
    ELSE IF msg.content = NonString THEN TypeError
    ELSE LET rawLines == rawLinesOf(contentOrEmptyText(msg.content))
         IN IF hasSlideSections(rawLines)
            THEN Slide(slideSections(<<>>, rawLines))
            ELSE Generic([index \in 1..Len(rawLines) |->
                    Element(IF isHeaderLine(rawLines, index)
                            THEN "msg-line msg-header-line" ELSE "msg-line",
                            rawLines[index], <<>>, <<>>)])

\* part_002: every line is one flat element, a bullet when it starts with a
\* glyph, which it keeps.
renderMessageContent_part_002(msg) ==
    IF msg.role # "assistant" THEN Content(msg.content)
    ELSE IF msg.content = NonString THEN TypeError
    ELSE LET rawLines == rawLinesOf(contentOrEmptyText(msg.content))
         IN Generic([index \in 1..Len(rawLines) |->
                Element(IF IsBulletLine(rawLines[index])
                        THEN "msg-line msg-bullet" ELSE "msg-line",
                        rawLines[index], <<>>, <<>>)])

renderMessageContent(msg) ==
    IF variant = "part_001" THEN renderMessageContent_part_001(msg)
    ELSE IF variant = "part_002" THEN renderMessageContent_part_002(msg)
    ELSE renderMessageContent_frontend(msg)

\* {messages.map((msg) => ... renderMessageContent(msg) ...)}
renderTranscript(ms) == [i \in 1..Len(ms) |-> renderMessageContent(ms[i])]

(* ---------------- the timer effects ------------------------------------ *)

\* Delays are in seconds (the source gives milliseconds).  The text of the
\* third step has an em dash in the source, written "-" here.
UPLOAD_STATUS_STEPS ==
    << [delay |-> 0, text |-> "Uploading..."],
       [delay |-> 5, text |-> "Waking up server..."],
       [delay |-> 15,
        text |-> "Still connecting - free server may take a minute..."],
       [delay |-> 35, text |-> "Almost there..."] >>

\* setTimeout(() => setError(null), 6000) in part_001, 5000 in App.jsx
ERROR_DISMISS_DELAY(v) == IF v = "frontend" THEN 5 ELSE 6

\* setTimeout(f, d): the time left of the new timer.
setTimeout(family, d) == IF clock = family THEN d ELSE 0

\* An upload-status effect whose cleanup does not clear the timers.
uploadStatusEffect_noCleanup(st, old, new) ==
    IF new = old THEN st
    ELSE IF ~new THEN [status |-> "", timers |-> st.timers]
    ELSE [status |-> UPLOAD_STATUS_STEPS[1].text,
          timers |-> st.timers \cup
                     {[step |-> k,
                       left |-> setTimeout("status", UPLOAD_STATUS_STEPS[k].delay)] :
                          k \in 2..Len(UPLOAD_STATUS_STEPS)}]

\* An upload-status effect that leaves the first message to the timers.
uploadStatusEffect_noFirstMessage(st, old, new) ==
    IF new = old THEN st
    ELSE IF ~new THEN [status |-> "", timers |-> {}]
    ELSE [status |-> st.status,
          timers |-> {[step |-> k,
                       left |-> setTimeout("status", UPLOAD_STATUS_STEPS[k].delay)] :
                          k \in 1..Len(UPLOAD_STATUS_STEPS)}]

\* useEffect(..., [uploading]): runs when uploading changed; its cleanup
\* clears the timers of the run before.
uploadStatusEffect(st, old, new) ==
    IF new = old THEN st
    ELSE IF ~new THEN [status |-> "", timers |-> {}]
    ELSE [status |-> UPLOAD_STATUS_STEPS[1].text,
          timers |-> {[step |-> k,
                       left |-> setTimeout("status", UPLOAD_STATUS_STEPS[k].delay)] :
                          k \in 2..Len(UPLOAD_STATUS_STEPS)}]

\* An error effect without the cleanup that clears the timer.
errorEffect_noCleanup(ts, old, new) ==
    IF new = old THEN ts
    ELSE IF new = Null THEN ts
    ELSE ts \cup {setTimeout("error", ERROR_DISMISS_DELAY(variant))}

\* useEffect(..., [error]): runs when error changed (a setError with the value
\* error already has changes nothing); its cleanup clears the timer.
errorEffect(ts, old, new) ==
    IF new = old THEN ts
    ELSE IF new = Null THEN {}
    ELSE {setTimeout("error", ERROR_DISMISS_DELAY(variant))}

\* A step surfaced an error: it called setError with a message.
Surfaced(l) ==
    /\ HasErrorState(variant)
    /\ l.op \in {"chatResponse", "uploadResponse"}
    /\ l.kind # "ok"

\* The effects that run after the commit of a step, ts being the error timers
\* pending when it committed; none runs when the render raised.
Effects(ts) ==
    /\ IF Raises(screen', messages')
       THEN \* the component is removed: the cleanups clear the timers
            /\ statusTimers' = {}
            /\ errorTimers' = {}
            /\ UNCHANGED <<uploadStatus, elapsed, errorAge, shownAge>>
       ELSE /\ LET st == uploadStatusEffect([status |-> uploadStatus,
                                             timers |-> statusTimers],
                                            uploading, uploading')
               IN /\ uploadStatus' = st.status
                  /\ statusTimers' = st.timers
            /\ elapsed' = IF uploading' /\ ~uploading THEN 0 ELSE elapsed
            /\ errorTimers' = errorEffect(ts, error, error')
            /\ errorAge' = IF Surfaced(last') \/ error' = Null THEN 0
                           ELSE errorAge
            /\ shownAge' = IF error' # error THEN 0 ELSE shownAge
    /\ rendered' = IF rendered = Unrendered THEN rendered
                   ELSE IF screen' = "upload" \/ Raises(screen', messages')
                   THEN <<>>
                   ELSE renderTranscript(messages')
    /\ UNCHANGED <<clock, capacity>>

\* A step of the mounted component: its handler, then the effects.
Commit(ts) == ~Removed /\ Effects(ts)

\* What is left of a step of the removed component: no state of the
\* component changes, no commit and no effect follows.
NoCommit ==
    UNCHANGED <<variant, ui, uploadStatus, statusTimers, errorTimers, clock,
                capacity, elapsed, errorAge, shownAge, rendered>>

(* ---------------- the user, the network and the timers ----------------- *)

Canonical == variant \in {"part_001", "part_002"}
hasMessages == Len(messages) > 0

\* <button ... disabled={...}> of the send button
SendButtonDisabled ==
    IF Canonical THEN loading \/ trim(message) = <<>> ELSE loading

\* Where the quick-reply buttons are rendered and enabled.
QuickReplyEnabled ==
    IF variant = "part_001" THEN (~hasMessages) \/ ~loading
    ELSE IF variant = "part_000" THEN TRUE
    \* part_002 and App.jsx: {!hasMessages && (<div className="quick-actions-wrap">
    ELSE ~hasMessages

\* Where a file input is rendered and enabled.
FileInputEnabled ==
    IF Canonical THEN screen = "upload" /\ ~uploading ELSE TRUE

handleSend(t) ==
    IF Canonical THEN sendMessage(message, t)
    ELSE IF variant = "frontend" THEN sendMessage_frontend(message, t)
    ELSE handleSend_part_000(t)

handleQuickReply(text, t) ==
    IF Canonical THEN sendMessage(text, t)
    ELSE IF variant = "frontend" THEN sendMessage_frontend(text, t)
    ELSE handleQuickReply_part_000(text)

Type(t) == setMessage(t) /\ Commit(errorTimers)

ClickSend(t) ==
    /\ screen # "upload" /\ ~SendButtonDisabled
    /\ handleSend(t)
    /\ Commit(errorTimers)

PressEnter(t) == screen # "upload" /\ handleSend(t) /\ Commit(errorTimers)

ClickQuickReply(text, t) ==
    /\ screen # "upload" /\ QuickReplyEnabled
    /\ handleQuickReply(text, t)
    /\ Commit(errorTimers)

\* The request ends also when the component is gone: the rest of the handler
\* runs, its setState calls do nothing.
ChatSettles(i, res, t) ==
    IF Removed
    THEN /\ chat' = Remove(chat, i)
         /\ last' = [Did("chatResponse") EXCEPT !.stale = chat[i].stale,
                                                !.kind = res.kind]
         /\ UNCHANGED <<uploads, storage>>
         /\ NoCommit
    ELSE /\ IF Canonical THEN sendMessage_settled(i, res, t)
            ELSE IF variant = "frontend"
            THEN sendMessage_frontend_settled(i, res, t)
            ELSE handleSend_part_000_settled(i, res, t)
         /\ Effects(errorTimers)

ChooseFile(f) ==
    /\ FileInputEnabled
    /\ Len(uploads) < MaxUpload
    /\ IF Canonical THEN handleUpload(f)
       ELSE IF variant = "frontend" THEN handleUpload_frontend(f)
       ELSE handleUpload_part_000(f)
    /\ Commit(errorTimers)

\* With the component gone the setState calls of the handler do nothing;
\* the two localStorage.setItem calls of App.jsx still write.
UploadSettles(i, res) ==
    IF Removed
    THEN /\ uploads' = Remove(uploads, i)
         /\ storage' = IF variant = "frontend" /\ UploadOutcome(res) = "ok"
                       THEN [storage EXCEPT
                               !.fileName = String(res.filename),
                               !.fileContext = contentOrEmpty(res.content)]
                       ELSE storage
         /\ last' = UploadSettled(i, res)
         /\ UNCHANGED chat
         /\ NoCommit
    ELSE /\ IF Canonical THEN handleUpload_settled(i, res)
            ELSE IF variant = "frontend"
            THEN handleUpload_frontend_settled(i, res)
            ELSE handleUpload_part_000_settled(i, res)
         /\ Effects(errorTimers)

ClickSkip == Canonical /\ screen = "upload" /\ skip /\ Commit(errorTimers)

ClickNewChat ==
    \/ Canonical /\ screen = "chat" /\ handleNewChat /\ Commit(errorTimers)
    \/ /\ variant = "frontend" /\ hasMessages
       /\ handleNewChat_frontend
       /\ Commit(errorTimers)

\* {fileName && (<div className="file-chip"> ... )}
ClickClearFile ==
    /\ variant = "frontend" /\ fileName \notin {Null, NoFilename}
    /\ clearFile
    /\ Commit(errorTimers)

ClickDismiss ==
    /\ HasErrorState(variant) /\ error # Null
    /\ dismissError
    /\ Commit(errorTimers)

\* A due error timer runs its callback; the timer is spent.
ErrorTimerFires ==
    /\ HasErrorState(variant) /\ 0 \in errorTimers
    /\ errorTimeout
    /\ Commit(errorTimers \ {0})

\* The pending timers die with the page.
Reload == variant = "frontend" /\ mount /\ Effects({})

\* The pending upload-status timer that is due first, once it is due, runs its
\* callback: setUploadStatus(step.text).
StatusTimerFires ==
    \E tm \in statusTimers :
        /\ ~Removed
        /\ tm.left = 0
        /\ \A other \in statusTimers : other.left = 0 => tm.step <= other.step
        /\ uploadStatus' = UPLOAD_STATUS_STEPS[tm.step].text
        /\ statusTimers' = statusTimers \ {tm}
        /\ last' = Did("statusTimer")
        /\ UNCHANGED <<variant, ui, chat, uploads, storage, errorTimers, clock,
                       capacity, elapsed, errorAge, shownAge, rendered>>

Min(a, b) == IF a <= b THEN a ELSE b

\* One second passes; no timer that is followed in time is due.
Tick ==
    /\ clock # "none"
    /\ IF clock = "status"
       THEN /\ statusTimers # {}
            /\ \A tm \in statusTimers : tm.left > 0
            /\ statusTimers' = {[tm EXCEPT !.left = tm.left - 1] : tm \in statusTimers}
            /\ elapsed' = IF uploading THEN elapsed + 1 ELSE elapsed
            /\ UNCHANGED <<errorTimers, errorAge, shownAge>>
       ELSE /\ errorTimers # {}
            /\ 0 \notin errorTimers
            /\ errorTimers' = {left - 1 : left \in errorTimers}
            /\ errorAge' = Min(errorAge + 1, ERROR_DISMISS_DELAY(variant))
            /\ shownAge' = Min(shownAge + 1, ERROR_DISMISS_DELAY(variant))
            /\ UNCHANGED <<statusTimers, elapsed>>
    /\ last' = Did("tick")
    /\ UNCHANGED <<variant, ui, chat, uploads, storage, uploadStatus, clock,
                   capacity, rendered>>

AnyChatSettles ==
    \E i \in 1..Len(chat), res \in ChatResults, t \in Times :
        ChatSettles(i, res, t)

AnyUploadSettles ==
    \E i \in 1..Len(uploads) :
        \E res \in UploadResults(uploads[i].file) : UploadSettles(i, res)

Next ==
    \/ \E t \in InputTexts : Type(t)
    \/ \E t \in Times : ClickSend(t)
    \/ \E t \in Times : PressEnter(t)
    \/ \E text \in QUICK_ACTIONS, t \in Times : ClickQuickReply(text, t)
    \/ AnyChatSettles
    \/ \E f \in Files : ChooseFile(f)
    \/ AnyUploadSettles
    \/ ClickSkip
    \/ ClickNewChat
    \/ ClickClearFile
    \/ ClickDismiss
    \/ ErrorTimerFires
    \/ StatusTimerFires
    \/ Reload

Spec == Init /\ [][Next]_vars

\* The controller with the error timers, or the upload-status timers, followed
\* in time.
TimedNext == Next \/ Tick

ErrorTimerInit ==
    /\ clock = "error"
    /\ capacity = MaxTimedMessages
    /\ rendered = Unrendered
    /\ Mounted

ErrorTimerSpec == ErrorTimerInit /\ [][TimedNext]_vars

StatusTimerInit ==
    /\ clock = "status"
    /\ capacity = MaxTimedMessages
    /\ rendered = Unrendered
    /\ Mounted

StatusTimerSpec == StatusTimerInit /\ [][TimedNext]_vars

\* Time passes, and a due timer runs its callback.
FairErrorTimerSpec ==
    ErrorTimerSpec /\ WF_vars(Tick) /\ WF_vars(ErrorTimerFires)

\* The server may also answer 200 with a body that lacks the reply, the
\* filename or the content.
MalformedChatSettles ==
    \E i \in 1..Len(chat), res \in MalformedChatResults, t \in Times :
        ChatSettles(i, res, t)

MalformedUploadSettles ==
    \E i \in 1..Len(uploads) :
        \E res \in MalformedUploadResults(uploads[i].file) :
            UploadSettles(i, res)

MalformedNext == Next \/ MalformedChatSettles \/ MalformedUploadSettles

MalformedInit ==
    /\ clock = "none"
    /\ capacity = MaxTimedMessages
    /\ rendered = Unrendered
    /\ Mounted

MalformedSpec == MalformedInit /\ [][MalformedNext]_vars


(* ---------------- the replies the formatter is given -------------------- *)

\* Lines are at most MaxLineLength characters of LineAlphabet, or taken from
\* GenericLines or TemplateLines; a reply has at most MaxLines of the former
\* and MaxTemplateLines of the latter.
MaxLineLength == 6
MaxLines == 3
MaxTemplateLines == 4

LineAlphabet == {"*", "a", " "}
ShortLines == UNION {[1..n -> LineAlphabet] : n \in 1..MaxLineLength}

PLAN ==
    <<"P", "l", "a", "n", ":">>
TAKE_VITAMIN_D ==
    <<"-", " ", "T", "a", "k", "e", " ", "v", "i", "t", "a", "m", "i",
      "n", " ", "D">>
WALK_DAILY ==
    <<"-", " ", "W", "a", "l", "k", " ", "d", "a", "i", "l", "y">>
\* A line longer than HEADER_MAX_LENGTH.
LONG_LINE == [i \in 1..(HEADER_MAX_LENGTH + 1) |-> "x"]

GenericLines ==
    {<<>>, PLAN, TAKE_VITAMIN_D, WALK_DAILY, LONG_LINE,
     <<"#", " ", "T">>, <<"A", "B", "C", "D", ":">>, <<"1", ".", " ", "x">>,
     <<BULLET, " ", "g">>, <<"N">> \o Tail(NEXT_STEPS),
     <<"a", "*", "*", "*", "b", "*", "*">>, <<"#", " ", "a", "\r", "b">>}

\* Lines with a marker phrase (capitalized, behind a glyph, wrapped in
\* asterisks, two in one line) and lines without one.
TemplateLines ==
    {<<"U">> \o Tail(UNDERSTANDING),
     <<"-", " ">> \o ACTION_PLAN,
     <<"*", "*">> \o MONITORING \o <<"*", "*">>,
     DOCTOR,
     MONITORING \o <<" ">> \o DOCTOR,
     <<"i", "n", "t", "r", "o">>,
     <<"-", " ", "b">>}

\* lines.join('\n')
RECURSIVE join(_)
join(lines) ==
    IF Len(lines) = 1 THEN lines[1]
    ELSE lines[1] \o <<LF>> \o join(Tail(lines))

Joined(lines, max) == {join(ls) : ls \in UNION {[1..n -> lines] : n \in 1..max}}

FormatterInputs ==
    ShortLines \cup Joined(GenericLines, MaxLines)
        \cup Joined(TemplateLines, MaxTemplateLines)
        \cup {<<>>, Undefined, NonString}

\* A reply of the assistant arrives, whatever its text.
FormatterChatSettles ==
    \E i \in 1..Len(chat), reply \in FormatterInputs, t \in Times :
        ChatSettles(i, [kind |-> "ok", reply |-> reply], t)

\* The way to a rendered reply: reach the chat screen, send, receive.
FormatterNext ==
    \/ ClickSkip
    \/ \E text \in QUICK_ACTIONS, t \in Times : ClickQuickReply(text, t)
    \/ \E t \in Times : PressEnter(t)
    \/ FormatterChatSettles

FormatterInit ==
    /\ clock = "none"
    /\ capacity = MaxTimedMessages
    /\ rendered = <<>>
    /\ Mounted

FormatterSpec == FormatterInit /\ [][FormatterNext]_vars

\* axios.post(url, body, { timeout }): part_001 and part_002 give their
\* requests a timeout, App.jsx and part_000 give none (and axios has none of
\* its own).
HasTimeout(v) == v \in {"part_001", "part_002"}

\* A request with a timeout ends: with a response, with a transport error, or
\* by its timeout.  A request without one ends when the server or the
\* network ends it, which nothing in the client guarantees.
FairInit ==
    /\ clock = "none"
    /\ capacity = MaxTimedMessages
    /\ rendered = Unrendered
    /\ Mounted

FairSpec ==
    /\ FairInit /\ [][Next]_vars
    /\ WF_vars(HasTimeout(variant) /\ AnyChatSettles)
    /\ WF_vars(HasTimeout(variant) /\ AnyUploadSettles)

(* ------------------------------ properties ----------------------------- *)

IsPrefix(a, b) == Len(a) <= Len(b) /\ SubSeq(b, 1, Len(a)) = a

Optimistic == variant # "part_000"

\* The chat request that a step settles (the step removes it from chat).
Settles(i) == i \in 1..Len(chat) /\ chat' = Remove(chat, i)

\* C1: the response of a chat request that was in flight when Reset ran does
\* not touch the transcript when it arrives.
C1_StaleResponseIgnored ==
    [][(last'.op = "chatResponse" /\ last'.stale) => messages' = messages]_vars

\* C2 as stated: after a failed chat request of an optimistic variant the
\* transcript is the transcript before the send plus the one user message, an
\* error is shown and loading is false.
C2_FailureLeavesExactlyUserMessage ==
    [][(Optimistic /\ last'.op = "chatResponse" /\ last'.kind # "ok")
        => \E i \in 1..Len(chat) :
              /\ Settles(i)
              /\ messages' = Append(chat[i].pre, chat[i].userMessage)
              /\ error' # Null
              /\ loading' = FALSE]_vars

\* C2 amended: a failed chat request of an optimistic variant leaves the
\* transcript as it was just before the failure arrived, shows an error and
\* sets loading to false; unless a Reset ran since the send, the transcript
\* before the send plus the user message is still a prefix of the transcript.
C2_FailureKeepsTranscript ==
    [][(Optimistic /\ last'.op = "chatResponse" /\ last'.kind # "ok")
        => \E i \in 1..Len(chat) :
              /\ Settles(i)
              /\ messages' = messages
              /\ (~chat[i].stale =>
                    IsPrefix(Append(chat[i].pre, chat[i].userMessage), messages'))
              /\ error' # Null
              /\ loading' = FALSE]_vars

C2_Witness ==
    /\ Optimistic
    /\ last.op = "chatResponse" /\ last.kind = "timeout" /\ ~last.stale
    /\ Len(messages) = 3
    /\ messages[3].role = "user"
    /\ error # Null
    /\ ~loading

\* C3: at most one chat request is outstanding at any time.
C3_OneChatRequest == Len(chat) <= 1

\* C4: right after Reset the transcript is empty, the filename is null, the
\* report context is empty, no error is shown and the screen (where there is
\* one) is 'upload'.
C4_ResetClears ==
    last.op = "handleNewChat"
        => /\ messages = <<>>
           /\ fileName = Null
           /\ fileContext = ""
           /\ error = Null
           /\ (HasScreen(variant) => screen = "upload")

C4_Witness ==
    /\ last.op = "handleNewChat"
    /\ Len(chat) > 0
    /\ Len(uploads) > 0
    /\ loading

\* C5: a send whose text is empty or only whitespace changes nothing and
\* issues no request.
C5_BlankSendIsNoOp ==
    [][(last'.op = "sendMessage" /\ trim(last'.text) = <<>>)
        => /\ UNCHANGED <<ui, chat, uploads, storage>>
           /\ ~last'.issued]_vars

C5_Witness ==
    /\ last.op = "sendMessage"
    /\ last.text = <<" ">>
    /\ ~last.issued
    /\ ~loading

\* C6: right after a send that issued a request the transcript ends with the
\* user message of that send and the input is empty.
C6_UserMessageAppendedAtSend ==
    (last.op = "sendMessage" /\ last.issued)
        => /\ Len(messages) > 0
           /\ messages[Len(messages)].role = "user"
           /\ messages[Len(messages)].content = last.text
           /\ message = <<>>

\* C7: the payload of a chat request holds the sent text, the transcript as
\* it stood when the send ran (role and content of each message, in order),
\* and the report context or null; in the optimistic variants the same step
\* appends the user message, so that the history does not include it.
C7_PayloadMatchesState ==
    [][(last'.op = "sendMessage" /\ last'.issued)
        => LET p == last'.posted IN
           /\ p.message = last'.text
           /\ Len(p.conversation_history) = Len(messages)
           /\ \A k \in 1..Len(messages) :
                 p.conversation_history[k]
                    = [role |-> messages[k].role, content |-> messages[k].content]
           /\ p.file_context = (IF fileContext = "" THEN NullCtx ELSE fileContext)
           /\ fileContext' = fileContext
           /\ (Optimistic =>
                 /\ Len(messages') = Len(messages) + 1
                 /\ SubSeq(messages', 1, Len(messages)) = messages
                 /\ messages'[Len(messages')].role = "user"
                 /\ messages'[Len(messages')].content = p.message)]_vars

C7_Witness ==
    /\ Optimistic
    /\ last.op = "sendMessage" /\ last.issued
    /\ Len(last.posted.conversation_history) = 2
    /\ last.posted.file_context = "ctxB"
    /\ Len(messages) = 3

\* C8: every step other than Reset and the restore on mount keeps the
\* transcript as a prefix of the new transcript.
C8_AppendOnly ==
    [][last'.op \notin {"handleNewChat", "mount"}
        => IsPrefix(messages, messages')]_vars

C8_Witness ==
    /\ last.op = "chatResponse" /\ last.kind = "ok"
    /\ Len(messages) = MaxMessages

\* Every request ends, also where the client sets no timeout: the server
\* answers or the transport fails.
EveryRequestEnds == WF_vars(AnyChatSettles) /\ WF_vars(AnyUploadSettles)

\* C9: the end of a chat request, whatever its outcome (a reply, an error
\* response, a transport error, a timeout), sets loading to false; and when
\* every request ends, whenever loading is true it is false again later.
C9_LoadingClears ==
    /\ [][last'.op = "chatResponse" => loading' = FALSE]_vars
    /\ (EveryRequestEnds => (loading ~> ~loading))

C9_Witness ==
    /\ last.op = "chatResponse" /\ last.kind = "timeout" /\ last.stale
    /\ ~loading
    /\ chat = <<>>

\* C10: the filename and the report context are those of one upload, or both
\* are clear; the payload of a request carries the context of the report whose
\* filename is shown.
SameUpload(name, ctx) ==
    \/ name = Null /\ ctx = ""
    \/ \E f \in Files : name = NameOf[f] /\ ctx = ContentOf[f]

C10_ReportPairConsistent ==
    /\ SameUpload(fileName, fileContext)
    /\ (last.op = "sendMessage" /\ last.issued)
          => SameUpload(fileName,
                        IF last.posted.file_context = NullCtx THEN ""
                        ELSE last.posted.file_context)

C10_Witness ==
    /\ last.op = "uploadResponse" /\ last.kind = "ok"
    /\ last.replaced = "A.pdf"
    /\ fileName = "B.pdf"
    /\ fileContext = "ctxB"

\* The upload that a step settles, and the file it carried.
UploadEnds(i) == i \in 1..Len(uploads) /\ uploads' = Remove(uploads, i)

\* C11: an upload that succeeds without an error field makes the filename and
\* the report context those of its response, whatever report was loaded
\* before, moves the screen (where there is one) to 'chat' and sets uploading
\* (in the variants without it, loading) to false.
C11_UploadSuccessReplacesReport ==
    [][(last'.op = "uploadResponse" /\ last'.kind = "ok")
        => \E i \in 1..Len(uploads) :
              /\ UploadEnds(i)
              /\ fileName' = NameOf[uploads[i].file]
              /\ fileContext' = ContentOf[uploads[i].file]
              /\ (HasScreen(variant) => screen' = "chat")
              /\ uploading' = FALSE
              /\ (~HasScreen(variant) => loading' = FALSE)]_vars

C11_Witness ==
    /\ variant = "part_001"
    /\ last.op = "uploadResponse" /\ last.kind = "ok"
    /\ fileName = "A.pdf" /\ fileContext = "ctxA"
    /\ Len(messages) > 0
    /\ screen = "chat"
    /\ ~uploading

\* C12: an upload response with an error field surfaces that field verbatim
\* and leaves screen, filename, report context and transcript as they were;
\* uploading (in frontend, loading) returns to false.
C12_UploadErrorFieldVerbatim ==
    [][(HasErrorState(variant) /\ last'.op = "uploadResponse"
          /\ last'.kind = "error")
        => /\ error' = last'.error
           /\ last'.error # Null
           /\ UNCHANGED <<screen, fileName, fileContext, messages>>
           /\ uploading' = FALSE
           /\ (~HasScreen(variant) => loading' = FALSE)]_vars

C12_Witness ==
    /\ last.op = "uploadResponse" /\ last.kind = "error"
    /\ error = "Could not parse file"
    /\ fileName = "A.pdf"
    /\ Len(messages) > 0
    /\ ~uploading /\ ~loading

\* C13: an upload that fails in transport, with an HTTP error or by timeout
\* surfaces the generic message of its kind (timeout: 'took too long', no
\* response: 'cannot reach', otherwise the catch-all) and leaves screen,
\* filename, report context and transcript as they were; uploading returns to
\* false.
C13_UploadFailureGenericMessage ==
    [][(HasErrorState(variant) /\ last'.op = "uploadResponse"
          /\ last'.kind \in {"timeout", "network", "http"})
        => /\ error' = getErrorMessage(last'.kind)
           /\ UNCHANGED <<screen, fileName, fileContext, messages>>
           /\ uploading' = FALSE
           /\ (~HasScreen(variant) => loading' = FALSE)]_vars

\* C19: the screen goes from 'upload' to 'chat' only by a successful upload or
\* the skip action and from 'chat' to 'upload' only by Reset; a failed upload,
\* an upload application error, a send, a chat response or failure, an error
\* dismissal and every other step leave it unchanged.
C19_ScreenTransitions ==
    [][/\ (screen = "upload" /\ screen' = "chat")
            => \/ last'.op = "skip"
               \/ last'.op = "uploadResponse" /\ last'.kind = "ok"
       /\ (screen = "chat" /\ screen' = "upload") => last'.op = "handleNewChat"
       /\ screen' \in {screen, "upload", "chat"}
       /\ (\/ last'.op \in {"sendMessage", "chatResponse", "errorTimeout",
                          "statusTimer", "other"}
           \/ last'.op = "uploadResponse" /\ last'.kind # "ok")
            => screen' = screen]_vars

C19_Witness ==
    /\ variant = "part_001"
    /\ last.op = "uploadResponse" /\ last.kind = "timeout"
    /\ screen = "upload"
    /\ fileName = Null
    /\ loading

\* C14: no assistant message whose content is not text is in the transcript
\* and no filename that is not a string is stored, also when a 200 response
\* lacks the reply or the filename.
C14_MalformedResponseKeepsValidState ==
    /\ \A k \in 1..Len(messages) : messages[k].content # Undefined
    /\ fileName # NoFilename
    /\ storage.fileName # "undefined"

\* C20: in frontend, a reload with no request in flight gives back the
\* transcript, the filename and the report context held just before it.
C20_ReloadRestoresSession ==
    [][(last'.op = "mount" /\ chat = <<>> /\ uploads = <<>>)
        => /\ messages' = messages
           /\ fileName' = fileName
           /\ fileContext' = fileContext]_vars

\* C15: the auto-dismiss timer clears an error only when the full delay has
\* passed since an error was last surfaced, also when the error surfaced last
\* has the text of the one that was visible.
C15_NewErrorRestartsDelay ==
    [][(last'.op = "errorTimeout" /\ error # Null)
        => errorAge >= ERROR_DISMISS_DELAY(variant)]_vars

\* C16: while an error is visible exactly one auto-dismiss timer is pending,
\* the one armed when that error appeared, so that the error is cleared when
\* the delay has passed since it appeared and not before: no timer armed for an
\* earlier error clears it; with no error visible no timer is pending.  And a
\* visible error is eventually cleared unless a further error is surfaced.
C16_ErrorClearedByItsOwnTimer ==
    /\ [] /\ error = Null => errorTimers = {}
          /\ (HasErrorState(variant) /\ error # Null)
                => errorTimers = {ERROR_DISMISS_DELAY(variant) - shownAge}
    /\ (error # Null /\ ~Surfaced(last)) ~> (error = Null \/ Surfaced(last))

C16_Witness ==
    /\ error # Null
    /\ last.op = "tick"
    /\ shownAge = ERROR_DISMISS_DELAY(variant) - 1
    /\ errorTimers = {1}
    /\ Len(messages) = 1

\* The step of the upload-status text.
StepOf(text) ==
    IF \E k \in 1..Len(UPLOAD_STATUS_STEPS) : UPLOAD_STATUS_STEPS[k].text = text
    THEN CHOOSE k \in 1..Len(UPLOAD_STATUS_STEPS) :
            UPLOAD_STATUS_STEPS[k].text = text
    ELSE 0

\* C17: while an upload is pending the status is one of the four messages,
\* shown only once its threshold has passed since the upload began, and it
\* moves forward one message at a time, never back.
C17_StatusEscalatesForward ==
    /\ [](uploading
            => /\ StepOf(uploadStatus) >= 1
               /\ UPLOAD_STATUS_STEPS[StepOf(uploadStatus)].delay <= elapsed)
    /\ [][(uploading /\ uploading')
            => StepOf(uploadStatus') \in
                  {StepOf(uploadStatus), StepOf(uploadStatus) + 1}]_vars

C17_Witness ==
    /\ uploading
    /\ uploadStatus = "Almost there..."
    /\ elapsed = 35
    /\ statusTimers = {}

\* C18: when no upload is pending the status is empty and no escalation timer
\* is pending; an upload that starts shows the first message and arms the
\* three later ones.
C18_NoStaleStatusTimer ==
    /\ [](~uploading => uploadStatus = "" /\ statusTimers = {})
    /\ [][(~uploading /\ uploading')
            => /\ uploadStatus' = UPLOAD_STATUS_STEPS[1].text
               /\ {tm.step : tm \in statusTimers'} = {2, 3, 4}
               /\ elapsed' = 0]_vars

C18_Witness ==
    /\ last.op = "uploadResponse"
    /\ ~uploading
    /\ elapsed = 5
    /\ uploadStatus = ""
    /\ statusTimers = {}

\* C21: in the persisted variant, right after Reset local storage holds no
\* message, no filename and no report context, and the response of a chat or
\* upload request issued before the Reset leaves local storage as it is.
C21_ResetClearsStorage ==
    /\ [](variant = "frontend" /\ last.op = "handleNewChat"
            => /\ storage.messages.value = <<>>
               /\ storage.fileName = Null
               /\ storage.fileContext = Null)
    /\ [][(variant = "frontend"
            /\ last'.op \in {"chatResponse", "uploadResponse"}
            /\ last'.stale)
            => storage' = storage]_vars

\* C28: loading is true in every state where a request that set it is still
\* outstanding: a chat request, and an upload too where handleUpload sets
\* loading (frontend, part_000).
C28_LoadingWhileOutstanding ==
    (chat # <<>> \/ (~HasScreen(variant) /\ uploads # <<>>)) => loading

\* C29: the response of an upload that was pending when Reset ran sets neither
\* the filename nor the report context and does not change the screen.
C29_StaleUploadIgnored ==
    [][(HasScreen(variant) /\ last'.op = "uploadResponse" /\ last'.stale)
        => UNCHANGED <<fileName, fileContext, screen>>]_vars

\* {fileName ? `Report loaded: ${fileName}` : ...}: a report is shown as
\* loaded when the filename is truthy.
ReportShown == fileName \notin {Null, NoFilename}

\* C30: a report is shown as loaded (the filename is set) exactly when the
\* report context is non-empty, and a chat request posted while a report is
\* shown as loaded carries a non-null file_context.
C30_FilenameIffContext ==
    /\ [](ReportShown <=> (fileContext # ""))
    /\ [][(last'.issued /\ ReportShown)
            => last'.posted.file_context # NullCtx]_vars

(* ---------------- properties of the Reply Formatter -------------------- *)

\* The assistant messages that are rendered and whose content is a text.
AssistantTexts ==
    {i \in 1..Len(messages) \cap DOMAIN rendered :
        /\ messages[i].role = "assistant"
        /\ messages[i].content \notin {Undefined, NonString}}

\* The marker phrases that a text contains, whatever the case.
MarkersIn(text) ==
    {k \in 1..Len(sectionDefs) :
        includes(toLowerCase(text), sectionDefs[k].match)}

\* C22: the template formatter gives exactly four section blocks for a text
\* with all four marker phrases, fewer than four for a text that lacks some
\* of them, and takes the generic path (no section block) for a text with
\* none.
C22_SectionBlocksMatchMarkers ==
    \A i \in AssistantTexts :
        variant \in {"frontend", "part_000"} =>
            LET markers == MarkersIn(messages[i].content)
                blocks == Len(rendered[i].sections)
            IN /\ markers = {} <=> rendered[i].path = "generic"
               /\ Cardinality(markers) = 4 => blocks = 4
               /\ Cardinality(markers) \in 1..3 => blocks \in 1..3

\* The non-blank lines of a text.
NonBlankLines(text) == SelectSeq(split(text), LAMBDA l : trim(l) # <<>>)

\* The letters and digits of a text, in order.
Words(text) == SelectSeq(text, IsAlphanumeric)

RECURSIVE PartsText(_)
PartsText(parts) ==
    IF parts = <<>> THEN <<>> ELSE Head(parts).text \o PartsText(Tail(parts))

\* The headings and lines of the generic path in output order, the lines of
\* a section block in its place.
RECURSIVE Flat(_)
Flat(elements) ==
    IF elements = <<>> THEN <<>>
    ELSE LET e == Head(elements)
         IN (IF e.cls = "msg-section-block"
             THEN [k \in 1..Len(e.lines) |->
                     [cls |-> e.lines[k].cls,
                      text |-> PartsText(e.lines[k].content)]]
             ELSE <<[cls |-> e.cls, text |-> e.text \o PartsText(e.parts)]>>)
            \o Flat(Tail(elements))

\* C23: in the canonical formatter every non-blank line of the text gives
\* exactly one heading, bullet, numbered or plain line, in the order of the
\* input, and that line carries the letters and digits of the input line.
C23_EveryLineOnce ==
    \A i \in AssistantTexts :
        variant = "part_001" =>
            LET lines == NonBlankLines(messages[i].content)
                out == Flat(rendered[i].elements)
            IN /\ rendered[i].path = "generic"
               /\ Len(out) = Len(lines)
               /\ \A k \in 1..Len(out) :
                    /\ Words(out[k].text) = Words(lines[k])
                    /\ out[k].cls \in {"msg-line msg-heading",
                                       "msg-line msg-bullet",
                                       "msg-line msg-numbered", "msg-line"}

\* A line of a bullet run: a glyph, whitespace, text.
IsBulletRunLine(line) ==
    /\ Len(line) >= 3
    /\ line[1] \in {"-", BULLET}
    /\ IsWhitespace(line[2])

\* A short title: a line of at most sixty characters that is not itself a
\* bullet or a numbered line.
IsShortTitle(line) ==
    /\ line # <<>>
    /\ Len(line) <= HEADER_MAX_LENGTH
    /\ ~IsBulletRunLine(line)
    /\ ~numberedMatch(line)

\* The place of line j among the non-blank lines of a text.
NonBlankIndex(lines, j) ==
    Cardinality({m \in 1..j : trim(lines[m]) # <<>>})

HeadingClasses == {"msg-line msg-heading", "msg-line msg-header-line"}

\* C24: in the generic path a short title line directly before a bullet run
\* is shown as a heading and each bullet of the run is shown without its
\* glyph; the three lines 'Plan:', '- Take vitamin D', '- Walk daily' give
\* the heading 'Plan:' and the bullets 'Take vitamin D' and 'Walk daily'.
C24_TitleBeforeBulletsIsHeading ==
    \A i \in AssistantTexts :
        rendered[i].path = "generic" =>
            LET lines == split(messages[i].content)
                out == Flat(rendered[i].elements)
            IN /\ \A j \in 1..(Len(lines) - 1) :
                    LET k == NonBlankIndex(lines, j)
                    IN /\ IsShortTitle(trim(lines[j]))
                       /\ IsBulletRunLine(trim(lines[j + 1]))
                       => /\ k + 1 <= Len(out)
                          /\ out[k].cls \in HeadingClasses
                          /\ out[k + 1].text = afterSpaces(Tail(trim(lines[j + 1])))
               /\ messages[i].content = join(<<PLAN, TAKE_VITAMIN_D, WALK_DAILY>>)
                  => out = << [cls |-> "msg-line msg-heading", text |-> PLAN],
                              [cls |-> "msg-line msg-bullet",
                               text |-> SubSeq(TAKE_VITAMIN_D, 3, Len(TAKE_VITAMIN_D))],
                              [cls |-> "msg-line msg-bullet",
                               text |-> SubSeq(WALK_DAILY, 3, Len(WALK_DAILY))] >>

\* The texts that a rendering shows: the lines of the generic path, or the
\* titles, paragraphs and bullets of the section cards.
RECURSIVE SectionTexts(_)
SectionTexts(sections) ==
    IF sections = <<>> THEN <<>>
    ELSE <<Head(sections).title>> \o Head(sections).paragraphs
         \o Head(sections).bullets \o SectionTexts(Tail(sections))

ShownTexts(r) ==
    [k \in 1..Len(Flat(r.elements)) |-> Flat(r.elements)[k].text]
    \o SectionTexts(r.sections)

\* C25: no text that the formatter shows for an assistant reply contains an
\* asterisk, in headings, bullets, numbered and plain lines alike.
C25_NoAsteriskShown ==
    \A i \in AssistantTexts :
        \A k \in 1..Len(ShownTexts(rendered[i])) :
            \A c \in 1..Len(ShownTexts(rendered[i])[k]) :
                ~IsAsterisk(ShownTexts(rendered[i])[k][c])

\* C26: in the template path every non-empty line of the reply, the lines
\* before the first marker line included, is shown in some section card as
\* its title, a paragraph or a bullet.
C26_TemplatePathLossless ==
    \A i \in AssistantTexts :
        rendered[i].path = "template" =>
            LET lines == NonBlankLines(messages[i].content)
                shown == SectionTexts(rendered[i].sections)
            IN \A k \in 1..Len(lines) :
                   Words(lines[k]) # <<>> =>
                       \E m \in 1..Len(shown) :
                           Words(shown[m]) = Words(lines[k])

\* C27: where the transcript is shown, the formatter gives a result for
\* every assistant message of the transcript, whatever its content (empty,
\* whitespace, missing, not a string): it never raises.
C27_FormatterNeverRaises ==
    \A i \in 1..Len(messages) :
        messages[i].role = "assistant" /\ screen # "upload" =>
            /\ i <= Len(rendered)
            /\ rendered[i].path \in {"generic", "template"}
====
